---- MODULE Spec2Model ----
(***************************************************************************)
(* Student attendance tracker (src/app.py): the entity store, the roster   *)
(* reconciler (create_student, import_students), sessions, attendance      *)
(* marking and the attendance aggregator, as a state machine.              *)
(*                                                                         *)
(* The store is a relational database reached through one SQLAlchemy       *)
(* session per request.  A request's INSERTs and UPDATEs stay in its       *)
(* transaction tx[w] until commit; a query sees the committed rows and the *)
(* request's own flushed rows (READ COMMITTED).  A unique constraint is    *)
(* checked when the row is INSERTed (flush): against committed rows it     *)
(* raises IntegrityError, against another transaction's uncommitted row    *)
(* the statement waits until that transaction ends.                        *)
(***************************************************************************)
EXTENDS Integers, Sequences, FiniteSets, TLC

VARIABLES
    users,        \* User rows        [id, name, role, password_hash]
    courses,      \* Course rows      [id, teacher_id]
    students,     \* Student rows     [id, full_name, student_id]
    enrollments,  \* Enrollment rows  [id, course_id, student_id]
    sessions,     \* Session rows     [id, course_id, session_date]
    attendance,   \* Attendance rows  [id, session_id, student_id, status]
    grades,       \* Grade rows       [id, course_id, student_id, assignment_name]
    pc,           \* per worker: where its current request stands
    req,          \* per worker: the request's locals
    tx,           \* per worker: the open transaction of db.session
    last,         \* the response of the request that ended last
    nreq,         \* number of requests started
    db_initialized,  \* _db_initialized: the workers that have run init_db
    main          \* where the main() of start.py stands

store == <<users, courses, students, enrollments, sessions, attendance, grades>>
boot == <<db_initialized, main>>
vars == <<users, courses, students, enrollments, sessions, attendance, grades,
          pc, req, tx, last, nreq, db_initialized, main>>

----------------------------------------------------------------------------
(* Bounds and input domains *)

MaxRequests == 2
MaxRaceRequests == 2
MaxRows == 2

Workers == {"w1", "w2"}
NULL == "NULL"
None == "None"
Names == {"ann", "bob"}
\* the names submitted to a store that has ann and bob: cy is new
AppNames == {"ann", "cy"}
ExtIds == {"X1"}
TeacherIds == {1, 2}
CourseIds == {1, 2}

\* a CSV row in the roster format of export_students (Student ID, Full Name,
\* Email): csv.DictReader gives None for the fields a short row lacks
WellFormedRows == [name : Names, ext : ExtIds \cup {""}, email : {""}]
ImportRows ==
    WellFormedRows
      \cup [name : Names, ext : ExtIds \cup {""}, email : {None}]
      \cup {[name |-> "", ext |-> "", email |-> ""],
            [name |-> None, ext |-> "", email |-> None]}
\* the CSV rows uploaded to a store that has ann and bob
AppRows == [name : {"bob", "cy"}, ext : {""}, email : {""}]

----------------------------------------------------------------------------
(* Helpers of the store *)

MaxOf(S) == IF S = {} THEN 0 ELSE CHOOSE m \in S : \A x \in S : x <= m

\* `value or None`
OrNone(s) == IF s = "" THEN NULL ELSE s

EmptyTx == [students |-> {}, enrollments |-> {}, newEnr |-> <<>>,
            attendance |-> {}, newAtt |-> <<>>, updates |-> {}, failed |-> FALSE]

Others(w) == Workers \ {w}

\* Student.student_id: unique=True (NULLs never collide)
StudentIdTaken(rows, sid) ==
    sid # NULL /\ \E s \in rows : s.student_id = sid

\* UniqueConstraint('course_id', 'student_id', name='unique_enrollment'):
\* whether a row for (c, s) would collide with one of rows
MutNoUniqueEnrollment(rows, c, s) == FALSE
EnrollmentTaken(rows, c, s) ==
    \E e \in rows : e.course_id = c /\ e.student_id = s

\* Enrollment.query.filter_by(course_id=..., student_id=...).first() is not None
MutNoExistingEnrollment(rows, c, s) == FALSE
MutExistingEnrollmentAnyCourse(rows, c, s) == \E e \in rows : e.student_id = s
ExistingEnrollment(rows, c, s) ==
    \E e \in rows : e.course_id = c /\ e.student_id = s

\* the rows a query of worker w returns from
VisibleStudents(w) == students \cup tx[w].students
VisibleEnrollments(w) == enrollments \cup tx[w].enrollments

PendingStudents(ws) == UNION {tx[v].students : v \in ws}
PendingEnrollments(ws) == UNION {tx[v].enrollments : v \in ws}

NextStudentId == 1 + MaxOf({s.id : s \in students \cup PendingStudents(Workers)})
NextEnrollmentId ==
    1 + MaxOf({e.id : e \in enrollments \cup PendingEnrollments(Workers)})

\* Course.query.filter_by(id=course_id, teacher_id=session.get('user_id')).first()
MutAnyTeacherOwns(u, c) == \E k \in courses : k.id = c
OwnsCourse(u, c) == \E k \in courses : k.id = c /\ k.teacher_id = u

----------------------------------------------------------------------------
(* Flushing the session's pending Enrollment objects (autoflush before a   *)
(* query, and the flush of commit)                                         *)

\* the INSERT waits on another transaction's uncommitted row with the same key
EnrFlushBlocked(w) ==
    \E i \in 1..Len(tx[w].newEnr) :
        EnrollmentTaken(PendingEnrollments(Others(w)),
                        tx[w].newEnr[i].course_id, tx[w].newEnr[i].student_id)

RECURSIVE EnrFlushFails(_, _)
EnrFlushFails(rows, pending) ==
    IF pending = <<>> THEN FALSE
    ELSE \/ EnrollmentTaken(rows, Head(pending).course_id, Head(pending).student_id)
         \/ EnrFlushFails(rows \cup {[id |-> 0, course_id |-> Head(pending).course_id,
                                      student_id |-> Head(pending).student_id]},
                          Tail(pending))

RECURSIVE EnrInserted(_, _)
EnrInserted(pending, nextId) ==
    IF pending = <<>> THEN {}
    ELSE {[id |-> nextId, course_id |-> Head(pending).course_id,
           student_id |-> Head(pending).student_id]}
         \cup EnrInserted(Tail(pending), nextId + 1)

\* the transaction after a flush that raised: SQLAlchemy rolls the
\* transaction back and every later use of the session raises
\* PendingRollbackError until session.rollback()
FailedTx == [EmptyTx EXCEPT !.failed = TRUE]

\* the transaction after flushing its pending Enrollment objects
FlushedEnr(w) ==
    IF tx[w].failed THEN tx[w]
    ELSE IF EnrFlushFails(VisibleEnrollments(w), tx[w].newEnr) THEN FailedTx
    ELSE [tx[w] EXCEPT !.enrollments = @ \cup EnrInserted(tx[w].newEnr, NextEnrollmentId),
                       !.newEnr = <<>>]

----------------------------------------------------------------------------
(* Responses *)

Response(op, result, msg) ==
    [op |-> op, result |-> result, msg |-> msg, imported |-> 0, skipped |-> 0,
     rows |-> <<>>]

NoResponse == Response("none", "none", "")

Idle(w) == pc[w] = "idle"

\* the request ends: Flask-SQLAlchemy removes the scoped session at teardown,
\* which rolls back whatever was not committed
EndRequest(w, resp) ==
    /\ pc' = [pc EXCEPT ![w] = "idle"]
    /\ req' = [req EXCEPT ![w] = [op |-> "none"]]
    /\ tx' = [tx EXCEPT ![w] = EmptyTx]
    /\ last' = resp

----------------------------------------------------------------------------
(* create_student: POST /student/new *)

CreateStudent(w, u, full_name, student_id, course_id) ==
    /\ Idle(w)
    /\ nreq' = nreq + 1
    /\ UNCHANGED boot
    /\ UNCHANGED store
    /\ LET R(result, msg) == Response("create_student", result, msg)
       IN
       IF full_name = "" \/ course_id = 0
       THEN EndRequest(w, R("error", "Student name and course selection are required"))
       ELSE IF ~OwnsCourse(u, course_id)
       THEN EndRequest(w, R("error", "Invalid course selection"))
       ELSE LET matches == {s \in VisibleStudents(w) : s.full_name = full_name}
            IN
            IF matches = {}
            THEN IF student_id # "" /\ \E s \in VisibleStudents(w) : s.student_id = student_id
                 THEN EndRequest(w, R("error", "Student ID already exists"))
                 ELSE /\ pc' = [pc EXCEPT ![w] = "cs_flush"]
                      /\ req' = [req EXCEPT ![w] =
                                   [op |-> "create_student",
                                    course_id |-> course_id, full_name |-> full_name,
                                    student_id |-> student_id, student |-> 0]]
                      /\ UNCHANGED <<tx, last>>
            ELSE \E existing_student \in matches :   \* .first(), no ORDER BY
                 IF ExistingEnrollment(VisibleEnrollments(w), course_id, existing_student.id)
                 THEN EndRequest(w, R("error", "Student is already enrolled in this course"))
                 ELSE /\ pc' = [pc EXCEPT ![w] = "cs_commit"]
                      /\ req' = [req EXCEPT ![w] =
                                   [op |-> "create_student",
                                    course_id |-> course_id, full_name |-> full_name,
                                    student_id |-> student_id,
                                    student |-> existing_student.id]]
                      /\ tx' = [tx EXCEPT ![w].newEnr =
                                   <<[course_id |-> course_id,
                                      student_id |-> existing_student.id]>>]
                      /\ UNCHANGED last

\* db.session.add(student); db.session.flush(), then the enrollment query and
\* db.session.add(enrollment)
CreateStudentFlush(w) ==
    /\ pc[w] = "cs_flush"
    /\ ~StudentIdTaken(PendingStudents(Others(w)), OrNone(req[w].student_id))
    /\ UNCHANGED <<store, nreq, boot>>
    /\ IF StudentIdTaken(VisibleStudents(w), OrNone(req[w].student_id))
       THEN EndRequest(w, Response("create_student", "error",
                                   "An error occurred while enrolling the student"))
       ELSE LET student == [id |-> NextStudentId, full_name |-> req[w].full_name,
                            student_id |-> OrNone(req[w].student_id)]
            IN /\ tx' = [tx EXCEPT ![w].students = @ \cup {student},
                                   ![w].newEnr = <<[course_id |-> req[w].course_id,
                                                    student_id |-> student.id]>>]
               /\ req' = [req EXCEPT ![w].student = student.id]
               /\ pc' = [pc EXCEPT ![w] = "cs_commit"]
               /\ UNCHANGED last

\* db.session.commit(): flush the Enrollment, then COMMIT
CreateStudentCommit(w) ==
    /\ pc[w] = "cs_commit"
    /\ ~EnrFlushBlocked(w)
    /\ UNCHANGED <<users, courses, sessions, attendance, grades, nreq, boot>>
    /\ LET R(result, msg) == Response("create_student", result, msg)
           t == FlushedEnr(w)
       IN IF t.failed
          THEN /\ EndRequest(w, R("error", "An error occurred while enrolling the student"))
               /\ UNCHANGED <<students, enrollments>>
          ELSE /\ students' = students \cup t.students
               /\ enrollments' = enrollments \cup t.enrollments
               /\ EndRequest(w, R("ok", "Student enrolled successfully!"))

----------------------------------------------------------------------------
(* import_students: POST /import/students/<course_id> *)

\* request.files: what was uploaded
Uploads == {"no file", "no filename", "not csv", "csv"}

\* full_name before the loop's first assignment
Unbound == "<unbound>"

ImportResponse(w, result, msg) ==
    [Response("import_students", result, msg)
        EXCEPT !.imported = req[w].imported, !.skipped = req[w].skipped]

ImportStudents(w, u, course_id, file) ==
    /\ Idle(w)
    /\ nreq' = nreq + 1
    /\ UNCHANGED boot
    /\ UNCHANGED store
    /\ LET R(result, msg) == Response("import_students", result, msg)
       IN
       IF ~OwnsCourse(u, course_id)
       THEN EndRequest(w, R("error", "Access denied"))
       ELSE IF file # "csv"
       THEN EndRequest(w, R("error", file))
       ELSE /\ pc' = [pc EXCEPT ![w] = "imp_row"]
            /\ req' = [req EXCEPT ![w] =
                         [op |-> "import_students", course_id |-> course_id,
                          i |-> 1, imported |-> 0, skipped |-> 0,
                          errors |-> <<>>, full_name |-> Unbound,
                          student_id |-> "", student |-> 0]]
            /\ UNCHANGED <<tx, last>>

\* `continue`: on to the next row
NextRow(w, r) == req' = [req EXCEPT ![w] = [r EXCEPT !.i = @ + 1]]

\* except Exception as e: errors.append(f"Row {full_name}: {str(e)}"); continue
RowError(w, r) == NextRow(w, [r EXCEPT !.errors = Append(@, r.full_name)])

\* lines 788-799: the enrollment of the resolved student, in transaction t
EnrollRow(w, r, t, student) ==
    IF ExistingEnrollment(enrollments \cup t.enrollments, r.course_id, student.id)
    THEN /\ NextRow(w, [r EXCEPT !.skipped = @ + 1, !.student = student.id])
         /\ tx' = [tx EXCEPT ![w] = t]
    ELSE /\ NextRow(w, [r EXCEPT !.imported = @ + 1, !.student = student.id])
         /\ tx' = [tx EXCEPT ![w] =
                      [t EXCEPT !.newEnr = Append(@, [course_id |-> r.course_id,
                                                      student_id |-> student.id])]]

\* one pass of `for row in csv_reader` over the row the reader yields, up to
\* the INSERT of a new Student
ImportRow(w, row) ==
    /\ pc[w] = "imp_row"
    /\ req[w].i <= MaxRows
    /\ UNCHANGED <<store, nreq, boot>>
    /\ LET r == [req[w] EXCEPT !.full_name = row.name,
                               !.student_id = row.ext, !.student = 0]
       IN
       IF row.name = None
       THEN \* None.strip() raises; full_name keeps the previous row's value
            IF req[w].full_name = Unbound
            THEN \* the handler's f"Row {full_name}" raises UnboundLocalError,
                 \* which leaves the loop to the outer except: rollback
                 EndRequest(w, ImportResponse(w, "error", "Error importing students"))
            ELSE /\ RowError(w, [req[w] EXCEPT !.student = 0])
                 /\ UNCHANGED <<pc, tx, last>>
       ELSE IF row.name = ""
       THEN /\ NextRow(w, [r EXCEPT !.skipped = @ + 1, !.student_id = req[w].student_id])
            /\ UNCHANGED <<pc, tx, last>>
       ELSE IF row.email = None
       THEN /\ RowError(w, r)
            /\ UNCHANGED <<pc, tx, last>>
       ELSE \* Student.query...first(): autoflush, then the SELECT
            /\ ~EnrFlushBlocked(w)
            /\ UNCHANGED last
            /\ LET t == FlushedEnr(w)
                   byName == {s \in students \cup t.students : s.full_name = row.name}
                   byId == {s \in students \cup t.students : s.student_id = row.ext}
               IN
               IF t.failed
               THEN /\ RowError(w, r)
                    /\ tx' = [tx EXCEPT ![w] = t]
                    /\ UNCHANGED pc
               ELSE IF byName # {}
               THEN /\ \E student \in byName : EnrollRow(w, r, t, student)
                    /\ UNCHANGED pc
               ELSE IF row.ext # "" /\ byId # {}
               THEN /\ \E existing \in byId : EnrollRow(w, r, t, existing)
                    /\ UNCHANGED pc
               ELSE /\ req' = [req EXCEPT ![w] = r]
                    /\ tx' = [tx EXCEPT ![w] = t]
                    /\ pc' = [pc EXCEPT ![w] = "imp_flush"]

\* db.session.add(student); db.session.flush() of a row, then its enrollment
ImportFlush(w) ==
    /\ pc[w] = "imp_flush"
    /\ ~StudentIdTaken(PendingStudents(Others(w)), OrNone(req[w].student_id))
    /\ UNCHANGED <<store, nreq, last, boot>>
    /\ pc' = [pc EXCEPT ![w] = "imp_row"]
    /\ IF StudentIdTaken(VisibleStudents(w), OrNone(req[w].student_id))
       THEN /\ RowError(w, req[w])
            /\ tx' = [tx EXCEPT ![w] = FailedTx]
       ELSE LET student == [id |-> NextStudentId, full_name |-> req[w].full_name,
                            student_id |-> OrNone(req[w].student_id)]
            IN EnrollRow(w, req[w], [tx[w] EXCEPT !.students = @ \cup {student}], student)

\* db.session.commit() after the loop, and the outer except
ImportCommit(w) ==
    /\ pc[w] = "imp_row"
    /\ ~EnrFlushBlocked(w)
    /\ UNCHANGED <<users, courses, sessions, attendance, grades, nreq, boot>>
    /\ LET t == FlushedEnr(w)
       IN IF t.failed
          THEN /\ EndRequest(w, ImportResponse(w, "error", "Error importing students"))
               /\ UNCHANGED <<students, enrollments>>
          ELSE /\ students' = students \cup t.students
               /\ enrollments' = enrollments \cup t.enrollments
               /\ EndRequest(w, ImportResponse(w, "ok", "Successfully imported"))

----------------------------------------------------------------------------

(* create_session: POST /session/new *)

\* a parser that also takes the day/month/year form
MutLenientParseDate(str) ==
    CASE str = "2024-01-01" -> 1
      [] str = "2024-1-1" -> 1
      [] str = "2024-01-02" -> 2
      [] str = "01/02/2024" -> 2
      [] str = "2024-01-03" -> 3
      [] OTHER -> 0

\* datetime.strptime(session_date_str, '%Y-%m-%d').date(): the day of January
\* 2024 the string names (%m and %d take one or two digits), 0 for ValueError
ParseDate(str) ==
    CASE str = "2024-01-01" -> 1
      [] str = "2024-1-1" -> 1
      [] str = "2024-01-02" -> 2
      [] str = "2024-01-03" -> 3
      [] OTHER -> 0

DateStrs == {"", "01/02/2024", "2024-01-01", "2024-1-1", "2024-01-02", "2024-01-03"}

\* UniqueConstraint('course_id', 'session_date', name='unique_session')
MutNoUniqueSession(rows, c, d) == FALSE
SessionTaken(rows, c, d) ==
    \E x \in rows : x.course_id = c /\ x.session_date = d

\* Session.query.filter_by(course_id=..., session_date=...).first() is not None
ExistingSession(rows, c, d) ==
    \E x \in rows : x.course_id = c /\ x.session_date = d

NextSessionId == 1 + MaxOf({x.id : x \in sessions})

CreateSession(w, u, course_id, session_date_str) ==
    /\ Idle(w)
    /\ nreq' = nreq + 1
    /\ UNCHANGED boot
    /\ UNCHANGED store
    /\ LET R(result, msg) == Response("create_session", result, msg)
       IN
       IF course_id = 0 \/ session_date_str = ""
       THEN EndRequest(w, R("error", "Course and date are required"))
       ELSE IF ~OwnsCourse(u, course_id)
       THEN EndRequest(w, R("error", "Invalid course selection"))
       ELSE IF ParseDate(session_date_str) = 0
       THEN EndRequest(w, R("error", "Invalid date format"))
       ELSE IF ExistingSession(sessions, course_id, ParseDate(session_date_str))
       THEN EndRequest(w, R("error", "Session already exists for this course and date"))
       ELSE /\ pc' = [pc EXCEPT ![w] = "sess_commit"]
            /\ req' = [req EXCEPT ![w] =
                         [op |-> "create_session", course_id |-> course_id,
                          session_date |-> ParseDate(session_date_str)]]
            /\ UNCHANGED <<tx, last>>

\* db.session.add(session_obj); db.session.commit(), and its except
CreateSessionCommit(w) ==
    /\ pc[w] = "sess_commit"
    /\ UNCHANGED <<users, courses, students, enrollments, attendance, grades, nreq, boot>>
    /\ IF SessionTaken(sessions, req[w].course_id, req[w].session_date)
       THEN /\ EndRequest(w, Response("create_session", "error",
                                      "An error occurred while creating the session"))
            /\ UNCHANGED sessions
       ELSE /\ sessions' = sessions \cup
                   {[id |-> NextSessionId, course_id |-> req[w].course_id,
                     session_date |-> req[w].session_date]}
            /\ EndRequest(w, Response("create_session", "ok",
                                      "Session created successfully!"))

----------------------------------------------------------------------------
(* mark_attendance: POST /attendance/<session_id> *)

Statuses == {"Present", "Absent", "Late", "Excused"}

\* UniqueConstraint('session_id', 'student_id', name='unique_attendance')
MutNoUniqueAttendance(rows, sid, st) == FALSE
AttendanceTaken(rows, sid, st) ==
    \E a \in rows : a.session_id = sid /\ a.student_id = st

\* mark_attendance: Attendance.query.filter_by(session_id=..., student_id=...)
MutAlwaysNewAttendance(rows, sid, st) == {}
ExistingAttendance(rows, sid, st) ==
    {a \in rows : a.session_id = sid /\ a.student_id = st}

PendingAttendance(ws) == UNION {tx[v].attendance : v \in ws}
NextAttendanceId == 1 + MaxOf({a.id : a \in attendance \cup PendingAttendance(Workers)})

\* the sequence of the elements of a set of rows, by ascending id
RECURSIVE ById(_)
ById(rows) ==
    IF rows = {} THEN <<>>
    ELSE LET first == CHOOSE r \in rows : \A q \in rows : r.id <= q.id
         IN  <<first>> \o ById(rows \ {first})

\* a query that returns every Student, enrolled in the course or not
MutEveryStudent(c) ==
    LET ss == ById(students)
    IN  [i \in 1..Len(ss) |-> ss[i].id]

\* db.session.query(Enrollment, Student).join(...).filter(course_id == ...).all()
EnrolledStudents(c) ==
    LET es == ById({e \in enrollments : e.course_id = c})
    IN  [i \in 1..Len(es) |-> es[i].student_id]

AttFlushBlocked(w) ==
    \E i \in 1..Len(tx[w].newAtt) :
        AttendanceTaken(PendingAttendance(Others(w)),
                        tx[w].newAtt[i].session_id, tx[w].newAtt[i].student_id)

RECURSIVE AttFlushFails(_, _)
AttFlushFails(rows, pending) ==
    IF pending = <<>> THEN FALSE
    ELSE \/ AttendanceTaken(rows, Head(pending).session_id, Head(pending).student_id)
         \/ AttFlushFails(rows \cup {[id |-> 0, session_id |-> Head(pending).session_id,
                                      student_id |-> Head(pending).student_id,
                                      status |-> Head(pending).status]},
                          Tail(pending))

RECURSIVE AttInserted(_, _)
AttInserted(pending, nextId) ==
    IF pending = <<>> THEN {}
    ELSE {[id |-> nextId, session_id |-> Head(pending).session_id,
           student_id |-> Head(pending).student_id, status |-> Head(pending).status]}
         \cup AttInserted(Tail(pending), nextId + 1)

\* the transaction after flushing its pending Attendance objects
FlushedAtt(w) ==
    IF tx[w].failed THEN tx[w]
    ELSE IF AttFlushFails(attendance \cup tx[w].attendance, tx[w].newAtt) THEN FailedTx
    ELSE [tx[w] EXCEPT !.attendance = @ \cup AttInserted(tx[w].newAtt, NextAttendanceId),
                       !.newAtt = <<>>]

\* UPDATEs that drop the rows they name
MutDeleteUpdated(rows, updates) ==
    {a \in rows : ~\E u \in updates : u.id = a.id}

\* the UPDATEs of a transaction applied to the committed rows: the statement
\* sets only the columns whose value differs from the one the session loaded
Updated(rows, updates) ==
    {IF \E u \in updates : u.id = a.id /\ u.status # u.loaded
     THEN [a EXCEPT !.status = (CHOOSE u \in updates : u.id = a.id).status]
     ELSE a : a \in rows}

\* except Exception: db.session.rollback(): the committed rows stay
AfterRollback(rows, t) == rows

MarkAttendance(w, u, session_id) ==
    /\ Idle(w)
    /\ nreq' = nreq + 1
    /\ UNCHANGED boot
    /\ UNCHANGED store
    /\ LET R(result, msg) == Response("mark_attendance", result, msg)
           found == {x \in sessions : x.id = session_id}
       IN
       IF found = {}
       THEN EndRequest(w, R("error", "Page not found"))
       ELSE LET session_obj == CHOOSE x \in found : TRUE
            IN  IF ~OwnsCourse(u, session_obj.course_id)
                THEN EndRequest(w, R("error", "Access denied"))
                ELSE /\ pc' = [pc EXCEPT ![w] = "mark_loop"]
                     /\ req' = [req EXCEPT ![w] =
                                  [op |-> "mark_attendance", session_id |-> session_id,
                                   todo |-> EnrolledStudents(session_obj.course_id),
                                   written |-> {}]]
                     /\ UNCHANGED <<tx, last>>

\* one pass of `for enrollment, student in enrollments` with the status the
\* form carries for the student ("" when it carries none)
MarkStudent(w, status) ==
    /\ pc[w] = "mark_loop"
    /\ req[w].todo # <<>>
    /\ UNCHANGED <<users, courses, students, enrollments, sessions, grades, nreq, boot>>
    /\ LET student == Head(req[w].todo)
           rest == [req[w] EXCEPT !.todo = Tail(@)]
       IN
       IF status = ""
       THEN /\ req' = [req EXCEPT ![w] = rest]
            /\ UNCHANGED <<attendance, pc, tx, last>>
       ELSE \* Attendance.query...first(): autoflush, then the SELECT
            /\ ~AttFlushBlocked(w)
            /\ LET t == FlushedAtt(w)
                   found == ExistingAttendance(attendance \cup t.attendance,
                                          req[w].session_id, student)
               IN
               IF t.failed
               THEN /\ attendance' = AfterRollback(attendance, tx[w])
                    /\ EndRequest(w, Response("mark_attendance", "error",
                                              "An error occurred while saving attendance"))
               ELSE /\ UNCHANGED <<attendance, pc, last>>
                    /\ req' = [req EXCEPT ![w] =
                                 [rest EXCEPT !.written =
                                     @ \cup {[student_id |-> student, status |-> status]}]]
                    /\ IF found # {}
                       THEN LET a == CHOOSE x \in found : TRUE
                            IN tx' = [tx EXCEPT ![w] =
                                        [t EXCEPT !.updates = @ \cup
                                           {[id |-> a.id, loaded |-> a.status,
                                             status |-> status]}]]
                       ELSE tx' = [tx EXCEPT ![w] =
                                     [t EXCEPT !.newAtt = Append(@,
                                        [session_id |-> req[w].session_id,
                                         student_id |-> student, status |-> status])]]

\* db.session.commit() after the loop, and the except
MarkCommit(w) ==
    /\ pc[w] = "mark_loop"
    /\ req[w].todo = <<>>
    /\ ~AttFlushBlocked(w)
    /\ UNCHANGED <<users, courses, students, enrollments, sessions, grades, nreq, boot>>
    /\ LET t == FlushedAtt(w)
       IN IF t.failed
          THEN /\ attendance' = AfterRollback(attendance, tx[w])
               /\ EndRequest(w, Response("mark_attendance", "error",
                                         "An error occurred while saving attendance"))
          ELSE /\ attendance' = Updated(attendance, t.updates) \cup t.attendance
               /\ EndRequest(w, Response("mark_attendance", "ok",
                                         "Attendance saved successfully!"))

----------------------------------------------------------------------------

(* The attendance aggregator: attendance_report and student_dashboard *)

MutLateAsExcused(status) ==
    CASE status = "Present" -> 4
      [] status = "Late" -> 2
      [] status = "Excused" -> 2
      [] OTHER -> 0

\* ATTENDANCE_WEIGHTS.get(status, 0.0), in quarters (Present 1.0 is 4)
ATTENDANCE_WEIGHTS(status) ==
    CASE status = "Present" -> 4
      [] status = "Late" -> 3
      [] status = "Excused" -> 2
      [] status = "Absent" -> 0
      [] OTHER -> 0

\* the aggregator's Attendance.query.filter_by(session_id=..., student_id=...)
AttendanceFor(rows, sid, st) ==
    {a \in rows : a.session_id = sid /\ a.student_id = st}

\* Session.query.filter_by(course_id=...).order_by(Session.session_date).all()
RECURSIVE OrderedByDate(_)
OrderedByDate(rows) ==
    IF rows = {} THEN <<>>
    ELSE LET dates == {r.session_date : r \in rows}
             lo == CHOOSE d \in dates : \A e \in dates : d <= e
             hi == CHOOSE d \in dates : \A e \in dates : e <= d
             mid == (lo + hi) \div 2
         IN  IF lo = hi
             THEN LET first == CHOOSE r \in rows : TRUE
                  IN  <<first>> \o OrderedByDate(rows \ {first})
             ELSE OrderedByDate({r \in rows : r.session_date <= mid})
                  \o OrderedByDate({r \in rows : r.session_date > mid})

CourseSessions(c) == OrderedByDate({x \in sessions : x.course_id = c})

\* round(n / d, 0) as Python rounds: to the nearest, a tie to the even one
Round(n, d) ==
    LET q == n \div d
        r == n % d
    IN  IF 2 * r < d THEN q
        ELSE IF 2 * r > d THEN q + 1
        ELSE IF q % 2 = 0 THEN q ELSE q + 1

MutMissingAsPresent(found) ==
    IF found # {}
    THEN ATTENDANCE_WEIGHTS((CHOOSE a \in found : TRUE).status)
    ELSE ATTENDANCE_WEIGHTS("Present")

\* attendance_report: what one session adds to total_weight
ReportWeight(found) ==
    IF found # {}
    THEN ATTENDANCE_WEIGHTS((CHOOSE a \in found : TRUE).status)
    ELSE ATTENDANCE_WEIGHTS("Absent")

\* attendance_report: total_weight of the loop over course_sessions
RECURSIVE ReportTotalWeight(_, _, _)
ReportTotalWeight(att, course_sessions, student) ==
    LET n == Len(course_sessions)
    IN  IF n = 0 THEN 0
        ELSE IF n = 1
        THEN ReportWeight(AttendanceFor(att, course_sessions[1].id, student))
        ELSE ReportTotalWeight(att, SubSeq(course_sessions, 1, n \div 2), student)
             + ReportTotalWeight(att, SubSeq(course_sessions, n \div 2 + 1, n), student)

\* attendance_report: round(percentage, 1), in tenths of a percent
ReportPercentage(att, course_sessions, student) ==
    LET total_sessions == Len(course_sessions)
    IN  IF total_sessions = 0 THEN 0
        ELSE Round(250 * ReportTotalWeight(att, course_sessions, student), total_sessions)

\* student_reports.sort(key=lambda x: x['percentage'], reverse=True): stable
RECURSIVE SortedByPercentage(_)
SortedByPercentage(reports) ==
    IF reports = <<>> THEN <<>>
    ELSE LET x == Head(reports)
             s == SortedByPercentage(Tail(reports))
             k == Cardinality({i \in 1..Len(s) : s[i].percentage > x.percentage})
         IN  SubSeq(s, 1, k) \o <<x>> \o SubSeq(s, k + 1, Len(s))

StudentReports(c) ==
    LET enrolled == EnrolledStudents(c)
        course_sessions == CourseSessions(c)
    IN  [i \in 1..Len(enrolled) |->
            [course |-> c, student |-> enrolled[i],
             percentage |-> ReportPercentage(attendance, course_sessions, enrolled[i]),
             total_sessions |-> Len(course_sessions)]]

AttendanceReport(w, u, course_id) ==
    /\ Idle(w)
    /\ nreq' = nreq + 1
    /\ UNCHANGED boot
    /\ UNCHANGED store
    /\ IF ~OwnsCourse(u, course_id)
       THEN EndRequest(w, Response("attendance_report", "error",
                "Access denied - You can only view reports for your own courses"))
       ELSE EndRequest(w, [Response("attendance_report", "ok", "")
                             EXCEPT !.rows = SortedByPercentage(StudentReports(course_id))])

\* a dashboard that counts Late as Present
MutDashboardLateAsPresent(found) ==
    IF found # {} /\ (CHOOSE a \in found : TRUE).status \in {"Present", "Late"}
    THEN ATTENDANCE_WEIGHTS("Present")
    ELSE IF found # {}
    THEN ATTENDANCE_WEIGHTS((CHOOSE a \in found : TRUE).status)
    ELSE ATTENDANCE_WEIGHTS("Absent")

\* student_dashboard: what one session adds to total_weight
DashboardWeight(found) ==
    IF found # {}
    THEN ATTENDANCE_WEIGHTS((CHOOSE a \in found : TRUE).status)
    ELSE ATTENDANCE_WEIGHTS("Absent")

RECURSIVE DashboardTotalWeight(_, _, _)
DashboardTotalWeight(att, course_sessions, student) ==
    IF course_sessions = <<>> THEN 0
    ELSE DashboardWeight(AttendanceFor(att, Head(course_sessions).id, student))
         + DashboardTotalWeight(att, Tail(course_sessions), student)

DashboardPercentage(att, course_sessions, student) ==
    LET total_sessions == Len(course_sessions)
    IN  IF total_sessions = 0 THEN 0
        ELSE Round(250 * DashboardTotalWeight(att, course_sessions, student),
                   total_sessions)

CoursesData(student) ==
    LET es == ById({e \in enrollments : e.student_id = student})
    IN  [i \in 1..Len(es) |->
            [course |-> es[i].course_id, student |-> student,
             percentage |-> DashboardPercentage(attendance, CourseSessions(es[i].course_id),
                                                student),
             total_sessions |-> Len(CourseSessions(es[i].course_id))]]

\* GET /student/<student_id> by the logged-in user u
StudentDashboard(w, u, student_id) ==
    /\ Idle(w)
    /\ nreq' = nreq + 1
    /\ UNCHANGED boot
    /\ UNCHANGED store
    /\ LET R(result, msg) == Response("student_dashboard", result, msg)
           user == {x \in users : x.id = student_id}
       IN
       IF ~\E x \in users : x.id = u /\ x.role = "student"
       THEN EndRequest(w, R("error", "Access denied. Student access required."))
       ELSE IF u # student_id
       THEN EndRequest(w, R("error", "Access denied"))
       ELSE IF user = {}
       THEN EndRequest(w, R("error", "User record not found"))
       ELSE LET matches == {s \in students :
                               s.full_name = (CHOOSE x \in user : TRUE).name}
            IN  IF matches = {}
                THEN EndRequest(w, R("error", "Student record not found"))
                ELSE \E student \in matches :
                        EndRequest(w, [R("ok", "") EXCEPT !.rows = CoursesData(student.id)])

----------------------------------------------------------------------------

(* login and create_course *)

Passwords == {"", "pw"}

\* generate_password_hash(password): the stored hash of a password;
\* check_password_hash(hash, password) holds for the password hashed only
Hash(password) == IF password = "pw" THEN "pbkdf2(pw)" ELSE "pbkdf2(other)"

\* User.check_password
CheckPassword(user, password) ==
    IF user.password_hash = NULL THEN TRUE ELSE user.password_hash = Hash(password)

NextUserId == 1 + MaxOf({x.id : x \in users})
NextCourseId == 1 + MaxOf({k.id : k \in courses})

\* @teacher_required, for the session of the logged-in user u
IsTeacher(u) == \E x \in users : x.id = u /\ x.role = "teacher"

\* POST /login
Login(w, name, password, role) ==
    /\ Idle(w)
    /\ nreq' = nreq + 1
    /\ UNCHANGED boot
    /\ UNCHANGED <<courses, students, enrollments, sessions, attendance, grades>>
    /\ LET R(result, msg) == Response("login", result, msg)
           found == {x \in users : x.name = name /\ x.role = role}
       IN
       IF name = ""
       THEN /\ EndRequest(w, R("error", "Please enter your name"))
            /\ UNCHANGED users
       ELSE IF found = {}
       THEN /\ users' = users \cup
                   {[id |-> NextUserId, name |-> name, role |-> role,
                     password_hash |-> IF password = "" THEN NULL ELSE Hash(password)]}
            /\ EndRequest(w, R("ok", ""))
       ELSE \E user \in found :
               /\ UNCHANGED users
               /\ IF CheckPassword(user, password)
                  THEN EndRequest(w, R("ok", ""))
                  ELSE EndRequest(w, R("error", "Invalid credentials"))

\* POST /course/new by the logged-in user u
CreateCourse(w, u, name) ==
    /\ Idle(w)
    /\ nreq' = nreq + 1
    /\ UNCHANGED boot
    /\ UNCHANGED <<users, students, enrollments, sessions, attendance, grades>>
    /\ LET R(result, msg) == Response("create_course", result, msg)
       IN
       IF ~IsTeacher(u)
       THEN /\ EndRequest(w, R("error", "Access denied. Teacher access required."))
            /\ UNCHANGED courses
       ELSE IF name = ""
       THEN /\ EndRequest(w, R("error", "Course name is required"))
            /\ UNCHANGED courses
       ELSE /\ courses' = courses \cup {[id |-> NextCourseId, teacher_id |-> u]}
            /\ EndRequest(w, R("ok", "Course created successfully!"))

----------------------------------------------------------------------------
(* export_students and export_attendance *)

\* the data rows of the roster CSV
RosterCsv(c) ==
    LET enrolled == EnrolledStudents(c)
    IN  [i \in 1..Len(enrolled) |->
            LET student == CHOOSE s \in students : s.id = enrolled[i]
            IN  [course |-> c, student |-> student.id,
                 student_id |-> IF student.student_id = NULL THEN "" ELSE student.student_id,
                 full_name |-> student.full_name]]

ExportStudents(w, u, course_id) ==
    /\ Idle(w)
    /\ nreq' = nreq + 1
    /\ UNCHANGED boot
    /\ UNCHANGED store
    /\ IF ~OwnsCourse(u, course_id)
       THEN EndRequest(w, Response("export_students", "error", "Access denied"))
       ELSE EndRequest(w, [Response("export_students", "ok", "")
                             EXCEPT !.rows = RosterCsv(course_id)])

\* row.append(attendance.status if attendance else 'Absent')
ExportedStatus(found) ==
    IF found # {} THEN (CHOOSE a \in found : TRUE).status ELSE "Absent"

\* the data rows of the attendance CSV
AttendanceCsv(c) ==
    LET enrolled == EnrolledStudents(c)
        course_sessions == CourseSessions(c)
    IN  [i \in 1..Len(enrolled) |->
            [course |-> c, student |-> enrolled[i],
             statuses |-> [j \in 1..Len(course_sessions) |->
                             ExportedStatus(AttendanceFor(attendance, course_sessions[j].id,
                                                          enrolled[i]))]]]

ExportAttendance(w, u, course_id) ==
    /\ Idle(w)
    /\ nreq' = nreq + 1
    /\ UNCHANGED boot
    /\ UNCHANGED store
    /\ IF ~OwnsCourse(u, course_id)
       THEN EndRequest(w, Response("export_attendance", "error", "Access denied"))
       ELSE EndRequest(w, [Response("export_attendance", "ok", "")
                             EXCEPT !.rows = AttendanceCsv(course_id)])

----------------------------------------------------------------------------
(* manage_grades and delete_grade *)

\* the add-grade forms: a complete one for ann, and the ones that differ from
\* it in one field
GradeForm(student_id, assignment_name, grade_value, due_date) ==
    [student_id |-> student_id, assignment_name |-> assignment_name,
     grade_value |-> grade_value, due_date |-> due_date]

GradeForms ==
    {GradeForm(1, "quiz", "85", ""), GradeForm(1, "quiz", "85", "2024-01-02"),
     GradeForm(2, "quiz", "85", ""), GradeForm(9, "quiz", "85", ""),
     GradeForm(0, "quiz", "85", ""), GradeForm(1, "", "85", ""),
     GradeForm(1, "quiz", "", ""), GradeForm(1, "quiz", "abc", ""),
     GradeForm(1, "quiz", "85", "01/02/2024")}

\* request.form.get('grade_value', type=float): -1 stands for None
ParseFloat(str) == IF str = "85" THEN 85 ELSE -1

\* an INSERT that takes the id of the newest Grade row
MutLastGradeId == MaxOf({g.id : g \in grades})

\* the autoincrement primary key of the INSERT
NextGradeId == 1 + MaxOf({g.id : g \in grades})

\* POST /grades/<course_id> by the logged-in user u.  Grade.student_id is a
\* foreign key that the database may or may not enforce (SQLite does not
\* unless told to): for a student_id without a Student both outcomes occur
ManageGrades(w, u, course_id, student_id, assignment_name, grade_value_str, due_date_str) ==
    /\ Idle(w)
    /\ nreq' = nreq + 1
    /\ UNCHANGED boot
    /\ UNCHANGED <<users, courses, students, enrollments, sessions, attendance>>
    /\ LET R(result, msg) == Response("manage_grades", result, msg)
           added == [id |-> NextGradeId, course_id |-> course_id, student_id |-> student_id,
                     assignment_name |-> assignment_name,
                     grade_value |-> ParseFloat(grade_value_str),
                     due_date |-> ParseDate(due_date_str)]
       IN
       IF ~OwnsCourse(u, course_id)
       THEN /\ EndRequest(w, R("error", "Access denied"))
            /\ UNCHANGED grades
       ELSE IF student_id = 0 \/ assignment_name = "" \/ ParseFloat(grade_value_str) = -1
       THEN /\ EndRequest(w, R("error", "Student, assignment name, and grade are required"))
            /\ UNCHANGED grades
       ELSE IF due_date_str # "" /\ ParseDate(due_date_str) = 0
       THEN /\ EndRequest(w, R("error", "An error occurred while adding the grade"))
            /\ UNCHANGED grades
       ELSE \/ /\ grades' = grades \cup {added}
               /\ EndRequest(w, R("ok", "Grade added successfully!"))
            \/ /\ ~\E s \in students : s.id = student_id
               /\ EndRequest(w, R("error", "An error occurred while adding the grade"))
               /\ UNCHANGED grades

\* POST /grades/<grade_id>/delete by the logged-in user u
DeleteGrade(w, u, grade_id) ==
    /\ Idle(w)
    /\ nreq' = nreq + 1
    /\ UNCHANGED boot
    /\ UNCHANGED <<users, courses, students, enrollments, sessions, attendance>>
    /\ LET R(result, msg) == Response("delete_grade", result, msg)
           found == {g \in grades : g.id = grade_id}
       IN
       IF found = {}
       THEN /\ EndRequest(w, R("error", "Page not found"))
            /\ UNCHANGED grades
       ELSE LET grade == CHOOSE g \in found : TRUE
            IN  IF ~OwnsCourse(u, grade.course_id)
                THEN /\ EndRequest(w, R("error", "Access denied"))
                     /\ UNCHANGED grades
                ELSE /\ grades' = grades \ {grade}
                     /\ EndRequest(w, R("ok", "Grade deleted successfully"))

----------------------------------------------------------------------------

(* init_db, ensure_db_initialized and the main() of start.py *)

\* User.query.filter_by(role='teacher').first() is not None
HasTeacher == \E x \in users : x.role = "teacher"

\* User(name='Demo Teacher', role='teacher')
DemoTeacher ==
    [id |-> NextUserId, name |-> "Demo Teacher", role |-> "teacher",
     password_hash |-> NULL]

\* a guard that marks the worker whether init_db returned or raised
MutMarkAlways(w, ok) == db_initialized \cup {w}

\* _db_initialized after init_db returned (ok) or raised: the add follows the
\* call inside the try
AfterInitDb(w, ok) == IF ok THEN db_initialized \cup {w} ELSE db_initialized

\* the before_request hook returns None and Flask dispatches the request to
\* its view; init_db tells whether the hook ran init_db and how it ended
Dispatch(w, init_db) ==
    req' = [req EXCEPT ![w] = [op |-> "dispatch", init_db |-> init_db]]

Dispatched(w) == req[w].op = "dispatch"

\* @app.before_request of a request that reaches worker w, up to the query
\* for a teacher in init_db; up tells whether db.create_all() reaches the
\* database.  Gunicorn's workers are processes (worker_class = 'sync'): each
\* has its own _db_lock, which orders nothing between two workers
EnsureDbInitialized(w, up) ==
    /\ main \in {"gunicorn", "not used"}
    /\ Idle(w)
    /\ req[w].op = "none"
    /\ UNCHANGED <<courses, students, enrollments, sessions, attendance, grades,
                   tx, last, nreq, main, users>>
    /\ IF w \in db_initialized
       THEN /\ Dispatch(w, "not run")
            /\ UNCHANGED <<pc, db_initialized>>
       ELSE IF ~up
       THEN \* init_db re-raises, the hook logs the error and does not raise
            /\ Dispatch(w, "failed")
            /\ db_initialized' = AfterInitDb(w, FALSE)
            /\ UNCHANGED pc
       ELSE IF HasTeacher
       THEN /\ Dispatch(w, "ok")
            /\ db_initialized' = AfterInitDb(w, TRUE)
            /\ UNCHANGED pc
       ELSE /\ pc' = [pc EXCEPT ![w] = "init_commit"]
            /\ req' = [req EXCEPT ![w] = [op |-> "init_db"]]
            /\ UNCHANGED db_initialized

\* init_db: db.session.add(teacher); db.session.commit(), and the return to
\* the hook
InitDbCommit(w) ==
    /\ pc[w] = "init_commit"
    /\ users' = users \cup {DemoTeacher}
    /\ pc' = [pc EXCEPT ![w] = "idle"]
    /\ Dispatch(w, "ok")
    /\ db_initialized' = AfterInitDb(w, TRUE)
    /\ UNCHANGED <<courses, students, enrollments, sessions, attendance, grades,
                   tx, last, nreq, main>>

\* a main() that goes on to Gunicorn whether init_db returned or raised
MutIgnoreInitError(ok) == "initialized"

\* start.py after its try: sys.exit(1) in the except
MainAfterInit(ok) == IF ok THEN "initialized" ELSE "exit 1"

\* start.py main(): init_db() in the app context, before any worker exists
StartMain(up) ==
    /\ main = "start"
    /\ main' = MainAfterInit(up)
    /\ users' = IF up /\ ~HasTeacher THEN users \cup {DemoTeacher} ELSE users
    /\ UNCHANGED <<courses, students, enrollments, sessions, attendance, grades,
                   pc, req, tx, last, nreq, db_initialized>>

\* start.py main(): os.execvp('gunicorn', ...); found tells whether the
\* executable exists (FileNotFoundError: sys.exit(1))
ExecGunicorn(found) ==
    /\ main = "initialized"
    /\ main' = IF found THEN "gunicorn" ELSE "exit 1"
    /\ UNCHANGED <<store, pc, req, tx, last, nreq, db_initialized>>

----------------------------------------------------------------------------

(* Properties of the roster reconciler *)

SamePair(e1, e2) == e1.course_id = e2.course_id /\ e1.student_id = e2.student_id

\* C3: in every reachable state, whatever manual enrollments and CSV imports
\* ran (also concurrently), there is at most one Enrollment row per
\* (course_id, student_id) pair.
C3_EnrollmentUnique ==
    \A e1 \in enrollments, e2 \in enrollments : SamePair(e1, e2) => e1 = e2

\* a request lost the race for a pair: its INSERT hit unique_enrollment, and
\* the student is enrolled in both courses
C3_Witness ==
    /\ last.op = "create_student"
    /\ last.msg = "An error occurred while enrolling the student"
    /\ \A s \in students : s.student_id = NULL
    /\ \E e1 \in enrollments, e2 \in enrollments :
          e1.student_id = e2.student_id /\ e1.course_id # e2.course_id

\* the student named n exists and is enrolled in course c
AlreadyEnrolled(n, c) ==
    \E s \in students : /\ s.full_name = n
                        /\ \E e \in enrollments : e.course_id = c /\ e.student_id = s.id

\* C4: create_student invoked for a (course, student) pair that is already
\* enrolled ends with an error and leaves the Student and Enrollment tables
\* as they were.
C4_DuplicateEnrollRefused ==
    [][\A w \in Workers, u \in TeacherIds, n \in Names, x \in ExtIds \cup {""},
          c \in CourseIds :
          (CreateStudent(w, u, n, x, c) /\ AlreadyEnrolled(n, c))
             => /\ pc'[w] = "idle"
                /\ last'.op = "create_student"
                /\ last'.result = "error"
                /\ students' = students
                /\ enrollments' = enrollments]_vars

C4_Witness ==
    /\ last.op = "create_student"
    /\ last.msg = "Student is already enrolled in this course"
    /\ enrollments # {}

\* the import of worker w ends in this step
\* C8: in a bulk import every row is processed on its own: when a row failed
\* with a store-level error it is in the per-row error list and the import
\* still completes, with the Enrollments of the rows counted as imported
\* committed.
C8_RowsIndependent ==
    [][\A w \in Workers :
          (ImportCommit(w) /\ tx[w].failed /\ Len(req[w].errors) > 0)
             => /\ last'.result = "ok"
                /\ Cardinality(enrollments' \ enrollments) = req[w].imported]_vars

\* the student a well-formed, named row resolves to, as worker w sees the
\* store: by name, else by Student ID
Resolved(w, row) ==
    LET byName == {s \in VisibleStudents(w) : s.full_name = row.name}
        byId == {s \in VisibleStudents(w) : row.ext # "" /\ s.student_id = row.ext}
    IN  IF byName # {} THEN byName ELSE byId

Staged(t) == Cardinality(t.enrollments) + Len(t.newEnr)

C10_NoDuplicateStudent ==
    \A s1 \in students, s2 \in students : s1.full_name = s2.full_name => s1 = s2

----------------------------------------------------------------------------
(* Properties of sessions, attendance marking and the aggregator *)

SessionsOf(c) == {x \in sessions : x.course_id = c}

\* the rows of student st in the sessions of course c with the given status
WithStatus(c, st, status) ==
    {x \in SessionsOf(c) : \E a \in attendance :
        a.session_id = x.id /\ a.student_id = st /\ a.status = status}

\* the sum of the weights of student st over the sessions of course c, in
\* quarters: Present 1.0, Late 0.75, Excused 0.5, anything else 0.0
WeightSum(c, st) ==
    4 * Cardinality(WithStatus(c, st, "Present"))
    + 3 * Cardinality(WithStatus(c, st, "Late"))
    + 2 * Cardinality(WithStatus(c, st, "Excused"))

\* tenths is 100 * WeightSum / S, to the nearest tenth of a percent
IsPercentage(tenths, c, st) ==
    LET S == Cardinality(SessionsOf(c))
        d == tenths * S - 250 * WeightSum(c, st)
    IN  IF S = 0 THEN tenths = 0
        ELSE 2 * d <= S /\ 2 * (0 - d) <= S

Displayed ==
    last.result = "ok" /\ last.op \in {"attendance_report", "student_dashboard"}

\* C1: every percentage that attendance_report and student_dashboard display
\* for a student of a course with S sessions is 100 * (sum of the weights of
\* the student's statuses over the S sessions) / S to one decimal, with
\* Present 1.0, Late 0.75, Excused 0.5 and Absent or missing 0.0, and it is
\* 0.0 when S = 0
C1_Percentage ==
    Displayed =>
        \A i \in DOMAIN last.rows :
            IsPercentage(last.rows[i].percentage, last.rows[i].course, last.rows[i].student)

\* the report shows 58.3 for a student with Present, Late and no record over
\* the three sessions of the course
C1_Witness ==
    /\ last.op = "attendance_report" /\ last.result = "ok"
    /\ \E i \in DOMAIN last.rows :
          LET r == last.rows[i]
          IN  /\ r.percentage = 583
              /\ r.total_sessions = 3
              /\ Cardinality(WithStatus(r.course, r.student, "Present")) = 1
              /\ Cardinality(WithStatus(r.course, r.student, "Late")) = 1
              /\ Cardinality({a \in attendance : a.student_id = r.student /\
                                 \E x \in SessionsOf(r.course) : x.id = a.session_id}) = 2

Unmarked(c, st) ==
    {x \in SessionsOf(c) : \A a \in attendance :
        ~(a.session_id = x.id /\ a.student_id = st)}

ExplicitAbsent(x, st) ==
    [id |-> 0, session_id |-> x.id, student_id |-> st, status |-> "Absent"]

\* C2: for every student in a displayed course report and every session of
\* the course without an Attendance row of the student, the percentage
\* attendance_report computes with an explicit Absent row added for that
\* (session, student) is the percentage displayed, and the denominator
\* displayed is the number of the course's sessions, marked or not; and a
\* mark_attendance submission that only inserts Absent rows changes no
\* percentage
C2_MissingIsAbsent ==
    /\ []((last.op = "attendance_report" /\ last.result = "ok") =>
             \A i \in DOMAIN last.rows :
                LET r == last.rows[i]
                IN  /\ r.total_sessions = Cardinality(SessionsOf(r.course))
                    /\ \A x \in Unmarked(r.course, r.student) :
                          ReportPercentage(attendance \cup {ExplicitAbsent(x, r.student)},
                                           CourseSessions(r.course), r.student)
                            = r.percentage)
    /\ [][\A w \in Workers :
            (/\ MarkCommit(w)
             /\ req[w].written # {}
             /\ \A wr \in req[w].written :
                   /\ wr.status = "Absent"
                   /\ AttendanceFor(attendance, req[w].session_id, wr.student_id) = {})
            => /\ attendance' # attendance
               /\ \A e \in enrollments :
                     ReportPercentage(attendance', CourseSessions(e.course_id), e.student_id)
                       = ReportPercentage(attendance, CourseSessions(e.course_id),
                                          e.student_id)]_vars

\* a report displayed after a submission inserted an explicit Absent row,
\* with another session of the course still unmarked for that student
C2_Witness ==
    /\ last.op = "attendance_report" /\ last.result = "ok"
    /\ \E i \in DOMAIN last.rows :
          LET r == last.rows[i]
          IN  /\ Cardinality(WithStatus(r.course, r.student, "Absent")) = 1
              /\ Unmarked(r.course, r.student) # {}
              /\ r.percentage > 0

SessionUnique ==
    \A x, y \in sessions :
        (x.course_id = y.course_id /\ x.session_date = y.session_date) => x = y

\* C5: there is at most one Session per (course_id, session_date) in every
\* state, and a create_session request for a course and date that has a
\* Session, whether it finds the Session by its query or at its INSERT, ends
\* with an error and adds no Session row
C5_SessionUnique ==
    /\ []SessionUnique
    /\ [][/\ \A w \in Workers, u \in TeacherIds, c \in CourseIds, d \in DateStrs :
               (/\ CreateSession(w, u, c, d)
                /\ \E x \in sessions : x.course_id = c /\ x.session_date = ParseDate(d))
               => /\ pc'[w] = "idle"
                  /\ last'.op = "create_session" /\ last'.result = "error"
                  /\ sessions' = sessions
          /\ \A w \in Workers :
               (/\ CreateSessionCommit(w)
                /\ \E x \in sessions : /\ x.course_id = req[w].course_id
                                       /\ x.session_date = req[w].session_date)
               => /\ last'.op = "create_session" /\ last'.result = "error"
                  /\ sessions' = sessions]_vars

\* a create_session that passed its query loses to a concurrent one at its
\* INSERT: it ends with the error and the date has its one Session
C5_Witness ==
    /\ last.op = "create_session"
    /\ last.msg = "An error occurred while creating the session"
    /\ Cardinality(sessions) = 1

AttendanceUnique ==
    \A a, b \in attendance :
        (a.session_id = b.session_id /\ a.student_id = b.student_id) => a = b

\* the rows of the session hold every status the submission supplied
Persisted(rows, written, sid) ==
    \A wr \in written :
        \E a \in rows : /\ a.session_id = sid
                        /\ a.student_id = wr.student_id
                        /\ a.status = wr.status

\* C6: there is at most one Attendance row per (session, student), and when
\* a mark_attendance submission ends, the row of every student it supplied a
\* status for holds that status, and every row it supplied no status for is
\* as it was
C6_Upsert ==
    /\ []AttendanceUnique
    /\ [][\A w \in Workers :
            MarkCommit(w) =>
               /\ last'.result = "ok"
               /\ Persisted(attendance', req[w].written, req[w].session_id)
               /\ \A a \in attendance :
                     (\/ a.session_id # req[w].session_id
                      \/ \A wr \in req[w].written : wr.student_id # a.student_id)
                     => a \in attendance'
               /\ \A a \in attendance' \ attendance :
                     /\ a.session_id = req[w].session_id
                     /\ \E wr \in req[w].written : wr.student_id = a.student_id]_vars

\* a submission updated the row ann had for the first session (Present in
\* the initial store) and inserted the row bob did not have
C6_Witness ==
    /\ last.op = "mark_attendance" /\ last.result = "ok"
    /\ Cardinality({a \in attendance : a.session_id = 1}) = 2
    /\ AttendanceUnique
    /\ \E a \in attendance : a.id = 1 /\ a.status = "Late"

\* C7: a mark_attendance submission changes no committed row before it ends,
\* and when it ends either all the statuses it supplied are stored, or no
\* committed row changed
C7_Atomic ==
    [][\A w \in Workers :
         (pc[w] = "mark_loop" /\ req'[w] # req[w]) =>
            IF pc'[w] = "mark_loop"
            THEN attendance' = attendance
            ELSE \/ Persisted(attendance', req[w].written, req[w].session_id)
                 \/ attendance' = attendance]_vars

(* Properties of concurrent requests and of authorization *)

\* the request of worker w is about to INSERT a row whose uniqueness key a
\* committed row holds, or has done so
Conflicted(w) ==
    \/ tx[w].failed
    \/ \E i \in 1..Len(tx[w].newEnr) : \E e \in enrollments : SamePair(e, tx[w].newEnr[i])
    \/ \E i \in 1..Len(tx[w].newAtt) : \E a \in attendance :
          /\ a.session_id = tx[w].newAtt[i].session_id
          /\ a.student_id = tx[w].newAtt[i].student_id
    \/ /\ pc[w] = "sess_commit"
       /\ \E x \in sessions : /\ x.course_id = req[w].course_id
                              /\ x.session_date = req[w].session_date

IsTeacherOf(u, c) == \E k \in courses : k.id = c /\ k.teacher_id = u

Refused(w) ==
    /\ pc'[w] = "idle"
    /\ last'.result = "error"
    /\ store' = store

\* worker w starts a request of operation op in this step
Starts(w, op) ==
    /\ pc[w] = "idle"
    /\ nreq' = nreq + 1
    /\ IF pc'[w] = "idle" THEN last'.op = op ELSE req'[w].op = op

\* C12: each of create_student, create_session, mark_attendance,
\* attendance_report, export_students, export_attendance, import_students,
\* manage_grades and delete_grade, called for a course (the course of the
\* session, the course of the grade) by a user who is not the course's
\* teacher, ends with an error in that step and changes no table
C12_OwnerOnly ==
    [][\A w \in Workers, u \in {1, 2, 3} :
         (pc[w] = "idle" /\ nreq' # nreq /\ ~Refused(w)) =>
         /\ \A c \in CourseIds :
               ~IsTeacherOf(u, c) =>
                  /\ Starts(w, "create_student") =>
                        \A n \in AppNames, x \in ExtIds \cup {""} :
                           CreateStudent(w, u, n, x, c) => Refused(w)
                  /\ Starts(w, "create_session") =>
                        \A d \in DateStrs : CreateSession(w, u, c, d) => Refused(w)
                  /\ Starts(w, "import_students") =>
                        \A f \in Uploads : ImportStudents(w, u, c, f) => Refused(w)
                  /\ (Starts(w, "attendance_report") /\ AttendanceReport(w, u, c))
                        => Refused(w)
                  /\ (Starts(w, "export_students") /\ ExportStudents(w, u, c))
                        => Refused(w)
                  /\ (Starts(w, "export_attendance") /\ ExportAttendance(w, u, c))
                        => Refused(w)
                  /\ Starts(w, "manage_grades") =>
                        \A f \in GradeForms :
                           ManageGrades(w, u, c, f.student_id, f.assignment_name,
                                        f.grade_value, f.due_date) => Refused(w)
         /\ Starts(w, "mark_attendance") =>
               \A x \in sessions :
                  (~IsTeacherOf(u, x.course_id) /\ MarkAttendance(w, u, x.id)) => Refused(w)
         /\ Starts(w, "delete_grade") =>
               \A g \in grades :
                  (~IsTeacherOf(u, g.course_id) /\ DeleteGrade(w, u, g.id)) => Refused(w)]_vars

\* teacher 2 asked to delete the grade ann has in teacher 1's course and was
\* refused: the grade is still there
C12_Witness ==
    /\ last.op = "delete_grade" /\ last.result = "error" /\ last.msg = "Access denied"
    /\ \E g \in grades : g.id = 1 /\ g.course_id = 1

(* Properties of the resolution of a student reference *)

\* the reference (n, x) names no Student by full name and an existing one by
\* Student ID, among the Student rows `rows`
OnlyIdMatches(rows, n, x) ==
    /\ x # ""
    /\ ~\E s \in rows : s.full_name = n
    /\ \E s \in rows : s.student_id = x

\* C13: in create_student and in import_students, a reference whose full
\* name no Student has and whose Student ID an existing Student holds is
\* resolved to that Student: no Student is created or changed, the request
\* is not refused for the Student ID, and the Student is the one enrolled
C13_ResolveByStudentId ==
    [][/\ \A w \in Workers, u \in TeacherIds, n \in Names, x \in ExtIds, c \in CourseIds :
            (/\ CreateStudent(w, u, n, x, c)
             /\ IsTeacherOf(u, c)
             /\ OnlyIdMatches(students, n, x))
            => LET s == CHOOSE s \in students : s.student_id = x
               IN  /\ students' = students
                   /\ tx'[w].students = {}
                   /\ IF \E e \in enrollments : e.course_id = c /\ e.student_id = s.id
                      THEN pc'[w] = "idle" /\ last'.result = "error"
                      ELSE /\ pc'[w] = "cs_commit"
                           /\ tx'[w].newEnr = <<[course_id |-> c, student_id |-> s.id]>>
       /\ \A w \in Workers, row \in WellFormedRows :
            (/\ ImportRow(w, row)
             /\ ~tx[w].failed
             /\ OnlyIdMatches(VisibleStudents(w), row.name, row.ext))
            => /\ tx'[w].students = tx[w].students
               /\ pc'[w] = "imp_row"
               /\ \E s \in VisibleStudents(w) :
                     s.student_id = row.ext /\ req'[w].student = s.id]_vars

\* the reference (n, x) names a Student by full name, and by Student ID a
\* Student with another name
IdOfAnother(rows, n, x) ==
    /\ x # ""
    /\ \E s \in rows : s.full_name = n
    /\ \E s \in rows : s.student_id = x /\ s.full_name # n

\* C14: in create_student and in import_students, a reference whose full
\* name matches a Student and whose Student ID is held by a different
\* Student is rejected with an error, and no Student or Enrollment row is
\* created or changed for it
C14_RejectIdOfAnother ==
    [][/\ \A w \in Workers, u \in TeacherIds, n \in Names, x \in ExtIds, c \in CourseIds :
            (/\ CreateStudent(w, u, n, x, c)
             /\ IsTeacherOf(u, c)
             /\ IdOfAnother(students, n, x))
            => /\ pc'[w] = "idle"
               /\ last'.result = "error"
               /\ students' = students /\ enrollments' = enrollments
       /\ \A w \in Workers, row \in WellFormedRows :
            (/\ ImportRow(w, row)
             /\ ~tx[w].failed
             /\ IdOfAnother(VisibleStudents(w), row.name, row.ext))
            => /\ Len(req'[w].errors) = Len(req[w].errors) + 1
               /\ tx'[w] = tx[w]]_vars

\* C15: the status of every stored Attendance row is one of Present, Absent,
\* Late and Excused, whatever the mark_attendance submissions carried
C15_StatusDomain ==
    \A a \in attendance : a.status \in Statuses

(* Properties of the tables as a whole *)

OtherTables == <<users, courses, students, enrollments, sessions, attendance>>

GradeIdsOf(rows) == {g.id : g \in rows}

\* C16: the Grade table changes only in a successful manage_grades POST or a
\* successful delete_grade; a successful manage_grades POST adds exactly one
\* Grade row, with a new id and the submitted fields, and leaves every
\* existing Grade row as it was, also when a row with the same course,
\* student and assignment name exists; a successful delete_grade removes
\* exactly the row with the given id; both leave all other tables unchanged
C16_GradeFrame ==
    [][/\ grades' # grades =>
             /\ nreq' = nreq + 1
             /\ last'.op \in {"manage_grades", "delete_grade"}
             /\ last'.result = "ok"
       /\ \A w \in Workers :
            (Starts(w, "manage_grades") /\ last'.result = "ok") =>
               \A u \in {1, 2, 3}, c \in CourseIds, f \in GradeForms :
                  ManageGrades(w, u, c, f.student_id, f.assignment_name,
                               f.grade_value, f.due_date)
                  => /\ grades \subseteq grades'
                     /\ Cardinality(grades' \ grades) = 1
                     /\ \A g \in grades' \ grades :
                           /\ g.id \notin GradeIdsOf(grades)
                           /\ g.course_id = c
                           /\ g.student_id = f.student_id
                           /\ g.assignment_name = f.assignment_name
                     /\ OtherTables' = OtherTables
       /\ \A w \in Workers :
            (Starts(w, "delete_grade") /\ last'.result = "ok") =>
               \A u \in {1, 2, 3}, id \in GradeIdsOf(grades) :
                  DeleteGrade(w, u, id)
                  => /\ grades' = {g \in grades : g.id # id}
                     /\ Cardinality(grades') = Cardinality(grades) - 1
                     /\ OtherTables' = OtherTables]_vars

\* a second grade was added for the course, student and assignment name of
\* an existing one: both rows are stored
C16_Witness ==
    /\ last.op = "manage_grades" /\ last.result = "ok"
    /\ \E g, h \in grades :
          /\ g.id # h.id
          /\ g.course_id = h.course_id
          /\ g.student_id = h.student_id
          /\ g.assignment_name = h.assignment_name

\* every row of the first table has a row with its id in the second
Kept(before, after) == \A r \in before : \E q \in after : q.id = r.id

\* C17: no step of the application removes a User, Course, Student,
\* Enrollment, Session or Attendance row: every such row of a state is, by
\* its id, a row of the next state, and the rows of all of them but
\* Attendance are never changed either; a step that removes a row removes a
\* Grade row, in a delete_grade request
C17_NoRowRemoved ==
    [][/\ users \subseteq users'
       /\ courses \subseteq courses'
       /\ students \subseteq students'
       /\ enrollments \subseteq enrollments'
       /\ sessions \subseteq sessions'
       /\ Kept(attendance, attendance')
       /\ ~Kept(grades, grades') => last'.op = "delete_grade"]_vars

\* a grade was deleted after an attendance row was stored: the grade is gone
\* and the rows of the six other tables are all there
C17_Witness ==
    /\ last.op = "delete_grade" /\ last.result = "ok"
    /\ grades = {}
    /\ attendance # {}
    /\ Cardinality(users) >= 3 /\ Cardinality(courses) >= 2
    /\ Cardinality(students) >= 2 /\ Cardinality(enrollments) >= 2
    /\ Cardinality(sessions) >= 2

(* Properties of validation *)

\* C18: a create_course without a name, a create_student without a name or
\* a course, a create_session without a course or a date or with a date that
\* is not YYYY-MM-DD, and a manage_grades POST without a student or an
\* assignment name, with a grade value that is not a number or with a due
\* date that is not YYYY-MM-DD, end at once with an error response and leave
\* every table unchanged
C18_ValidationFrame ==
    [][\A w \in Workers :
         (pc[w] = "idle" /\ nreq' # nreq /\ ~Refused(w)) =>
            /\ Starts(w, "create_course") =>
                  \A u \in {1, 2, 3} : ~CreateCourse(w, u, "")
            /\ Starts(w, "create_student") =>
                  \A u \in {1, 2, 3}, n \in AppNames \cup {""}, x \in ExtIds \cup {""},
                     c \in CourseIds \cup {0} :
                     (n = "" \/ c = 0) => ~CreateStudent(w, u, n, x, c)
            /\ Starts(w, "create_session") =>
                  \A u \in {1, 2, 3}, c \in CourseIds \cup {0}, d \in DateStrs :
                     (c = 0 \/ d \in {"", "01/02/2024"}) => ~CreateSession(w, u, c, d)
            /\ Starts(w, "manage_grades") =>
                  \A u \in {1, 2, 3}, c \in CourseIds, f \in GradeForms :
                     (\/ f.student_id = 0
                      \/ f.assignment_name = ""
                      \/ f.grade_value \in {"", "abc"}
                      \/ f.due_date = "01/02/2024")
                     => ~ManageGrades(w, u, c, f.student_id, f.assignment_name,
                                      f.grade_value, f.due_date)]_vars

\* a create_session with the date 01/02/2024 was answered `Invalid date
\* format' after an earlier request, and the course has the session it had
C18_Witness ==
    /\ last.op = "create_session" /\ last.result = "error"
    /\ last.msg = "Invalid date format"
    /\ nreq = 2
    /\ Cardinality(sessions) = 2

(* Properties of concurrent attendance marking *)

\* another submission committed a row of a (session, student) pair while the
\* submission of worker w was being handled: a row w loaded has another
\* status now, or a pair w found without a row has one now
CommittedMeanwhile(w) ==
    \/ \E u \in tx[w].updates : \E a \in attendance : a.id = u.id /\ a.status # u.loaded
    \/ \E i \in 1..Len(tx[w].newAtt) :
          AttendanceTaken(attendance, tx[w].newAtt[i].session_id, tx[w].newAtt[i].student_id)

\* C19: when a mark_attendance submission ends after another submission for
\* the same session and student, handled at the same time by another worker,
\* has committed, it ends without an error and the rows of the session hold
\* the statuses it supplied: the last commit wins
C19_LastCommitWins ==
    [][\A w \in Workers :
         (pc[w] = "mark_loop" /\ pc'[w] = "idle" /\ CommittedMeanwhile(w)) =>
            /\ last'.result = "ok"
            /\ Persisted(attendance', req[w].written, req[w].session_id)]_vars

(* Properties of the order of the course report *)

EnrollmentIdOf(c, st) ==
    (CHOOSE e \in enrollments : e.course_id = c /\ e.student_id = st).id

\* C20: the report attendance_report displays for a course has exactly one
\* entry per student enrolled in the course; the entries are in the order of
\* non-increasing percentage, compared at full precision, which for the
\* entries of one course is the order of the sums of weights; and entries of
\* equal percentage are in the order in which the query returned the
\* students
C20_ReportOrder ==
    [][\A w \in Workers :
         (Starts(w, "attendance_report") /\ last'.result = "ok") =>
            \A u \in {1, 2, 3}, c \in CourseIds :
               AttendanceReport(w, u, c) =>
                  LET rows == last'.rows
                      enrolled == {e.student_id : e \in {e \in enrollments : e.course_id = c}}
                  IN  /\ Len(rows) = Cardinality(enrolled)
                      /\ \A st \in enrolled : \E i \in DOMAIN rows : rows[i].student = st
                      /\ \A i, j \in DOMAIN rows :
                            i < j =>
                               /\ WeightSum(c, rows[i].student) >= WeightSum(c, rows[j].student)
                               /\ WeightSum(c, rows[i].student) = WeightSum(c, rows[j].student)
                                  => EnrollmentIdOf(c, rows[i].student)
                                       < EnrollmentIdOf(c, rows[j].student)]_vars

(* Properties of the rows that exist *)

\* C21: the Attendance table changes only when a mark_attendance submission
\* ends: attendance_report, student_dashboard, export_students and
\* export_attendance, which count a missing row as Absent, create no row;
\* and every row a submission creates or changes is the row of its session
\* and of a student enrolled in the session's course for which the form
\* carried a status, with that status, so that every other (session,
\* student) pair without a row stays without one
C21_NoImplicitRows ==
    [][/\ attendance' # attendance =>
             \E w \in Workers : /\ pc[w] = "mark_loop" /\ pc'[w] = "idle"
                                /\ last'.op = "mark_attendance"
       /\ \A w \in Workers :
            (pc[w] = "mark_loop" /\ pc'[w] = "idle") =>
               \A a \in attendance' \ attendance :
                  /\ a.session_id = req[w].session_id
                  /\ \E wr \in req[w].written :
                        /\ wr.student_id = a.student_id
                        /\ wr.status # ""
                        /\ wr.status = a.status
                  /\ \E x \in sessions, e \in enrollments :
                        /\ x.id = a.session_id
                        /\ e.course_id = x.course_id
                        /\ e.student_id = a.student_id]_vars

\* a submission for a session of a course with two enrolled students carried
\* a status for one of them: that one has a row, the other has none, and the
\* export that followed, which shows the other as Absent, added none
C21_Witness ==
    /\ last.op = "export_attendance" /\ last.result = "ok"
    /\ \E x \in sessions, e1, e2 \in enrollments :
          /\ e1.course_id = x.course_id /\ e2.course_id = x.course_id
          /\ AttendanceFor(attendance, x.id, e1.student_id) # {}
          /\ AttendanceFor(attendance, x.id, e2.student_id) = {}

(* Properties of database initialization *)

\* the before_request hook of a request of worker w runs in this step
HookRuns(w) ==
    /\ pc[w] = "idle" /\ req[w].op = "none"
    /\ req'[w].op \in {"dispatch", "init_db"}

\* init_db ends in this step for worker w with the given outcome
InitDbEnds(w, outcome) ==
    /\ req[w].op \in {"none", "init_db"}
    /\ req'[w].op = "dispatch"
    /\ req'[w].init_db = outcome

\* C22: a worker that ensure_db_initialized has marked stays marked, and the
\* hook of each of its later requests does not run init_db and changes
\* nothing; the hook of a request of an unmarked worker runs init_db; when
\* init_db returns the worker is marked; and when init_db raises the worker
\* stays unmarked, nothing is written and the request goes on to its view
C22_InitOncePerWorker ==
    [][/\ db_initialized \subseteq db_initialized'
       /\ \A w \in Workers :
            /\ (HookRuns(w) /\ w \in db_initialized) =>
                  /\ req'[w] = [op |-> "dispatch", init_db |-> "not run"]
                  /\ pc'[w] = "idle"
                  /\ users' = users
            /\ (HookRuns(w) /\ w \notin db_initialized) =>
                  \/ req'[w].op = "init_db"
                  \/ req'[w].init_db \in {"ok", "failed"}
            /\ InitDbEnds(w, "ok") =>
                  w \notin db_initialized /\ w \in db_initialized'
            /\ InitDbEnds(w, "failed") =>
                  /\ w \notin db_initialized'
                  /\ users' = users
                  /\ pc'[w] = "idle"]_vars

\* a request of a marked worker is at its view without a run of init_db,
\* while a request of the other worker, whose init_db raised, is at its view
\* with the worker still unmarked
C22_Witness ==
    \E w, v \in Workers :
        /\ w \in db_initialized
        /\ req[w] = [op |-> "dispatch", init_db |-> "not run"]
        /\ v \notin db_initialized
        /\ req[v] = [op |-> "dispatch", init_db |-> "failed"]

DemoTeachers == {x \in users : x.name = "Demo Teacher"}

\* C25: on a store that had no teacher, once init_db has returned, in
\* start.py or in the hook of a worker, and whatever the number of runs of
\* init_db and of workers running it at the same time, exactly one user
\* named Demo Teacher exists
C25_OneDemoTeacher ==
    (db_initialized # {} \/ main \in {"initialized", "gunicorn"})
        => Cardinality(DemoTeachers) = 1

(* Properties of the two percentage computations *)

\* the percentages in the entries of student st and course c of a sequence
\* of report or dashboard rows
Shown(rows, c, st) ==
    {rows[i].percentage : i \in {j \in DOMAIN rows : rows[j].course = c /\ rows[j].student = st}}

\* C24: in every state in which student_dashboard shows a percentage for a
\* student and a course the student is enrolled in, attendance_report shows
\* for that student in the report of that course the same percentage, and
\* in every state in which attendance_report shows a percentage for a
\* student of the course, the dashboard of that student shows the same for
\* that course
C24_SamePercentage ==
    /\ (last.op = "student_dashboard" /\ last.result = "ok") =>
          \A i \in DOMAIN last.rows :
             Shown(StudentReports(last.rows[i].course), last.rows[i].course,
                   last.rows[i].student) = {last.rows[i].percentage}
    /\ (last.op = "attendance_report" /\ last.result = "ok") =>
          \A i \in DOMAIN last.rows :
             Shown(CoursesData(last.rows[i].student), last.rows[i].course,
                   last.rows[i].student) = {last.rows[i].percentage}

\* the dashboard shows 75.0 or 87.5 for a course in which the student was
\* marked Late, after the submission that marked it
C24_Witness ==
    /\ last.op = "student_dashboard" /\ last.result = "ok"
    /\ nreq = 2
    /\ \E i \in DOMAIN last.rows :
          /\ last.rows[i].percentage \in {750, 875}
          /\ WithStatus(last.rows[i].course, last.rows[i].student, "Late") # {}

Enrolled(c, st) == \E e \in enrollments : e.course_id = c /\ e.student_id = st

\* C26: every Attendance row is of a student enrolled in the course of the
\* row's session, and every Grade row is of a student enrolled in the
\* course of the grade
C26_OnlyEnrolled ==
    /\ \A a \in attendance :
          \E x \in sessions : x.id = a.session_id /\ Enrolled(x.course_id, a.student_id)
    /\ \A g \in grades : Enrolled(g.course_id, g.student_id)

----------------------------------------------------------------------------

(* Specifications *)

\* no request is being handled; start.py has started gunicorn and every
\* worker has handled a request before
NoRequests ==
    /\ pc = [w \in Workers |-> "idle"]
    /\ req = [w \in Workers |-> [op |-> "none"]]
    /\ tx = [w \in Workers |-> EmptyTx]
    /\ last = NoResponse
    /\ nreq = 0
    /\ db_initialized = Workers
    /\ main = "gunicorn"

\* after init_db and the creation of two courses by the demo teacher
Init ==
    /\ users = {[id |-> 1, name |-> "Demo Teacher", role |-> "teacher",
                 password_hash |-> NULL]}
    /\ courses = {[id |-> 1, teacher_id |-> 1], [id |-> 2, teacher_id |-> 1]}
    /\ students = {}
    /\ enrollments = {}
    /\ sessions = {}
    /\ attendance = {}
    /\ grades = {}
    /\ NoRequests

\* the roster operations of workers ws, for callers us, names ns, courses cs
\* and CSV rows `rows`, while
\* fewer than max requests were started
RosterStep(ws, us, ns, cs, rows, max) ==
    \/ \E w \in ws, u \in us, n \in ns, x \in ExtIds \cup {""}, c \in cs :
          nreq < max /\ CreateStudent(w, u, n, x, c)
    \/ \E w \in ws : CreateStudentFlush(w)
    \/ \E w \in ws : CreateStudentCommit(w)
    \/ \E w \in ws, u \in us, c \in cs \ {0}, f \in Uploads :
          nreq < max /\ ImportStudents(w, u, c, f)
    \/ \E w \in ws, row \in rows : ImportRow(w, row)
    \/ \E w \in ws : ImportFlush(w)
    \/ \E w \in ws : ImportCommit(w)

\* one worker, one request at a time
Next ==
    RosterStep({"w1"}, TeacherIds, Names \cup {""}, CourseIds \cup {0}, ImportRows,
               MaxRequests)

Spec == Init /\ [][Next]_vars

\* the roster operations by two workers at once, on a store in which ann is
\* enrolled in course 1
InitRace ==
    /\ users = {[id |-> 1, name |-> "Demo Teacher", role |-> "teacher",
                 password_hash |-> NULL]}
    /\ courses = {[id |-> 1, teacher_id |-> 1], [id |-> 2, teacher_id |-> 1]}
    /\ students = {[id |-> 1, full_name |-> "ann", student_id |-> NULL]}
    /\ enrollments = {[id |-> 1, course_id |-> 1, student_id |-> 1]}
    /\ sessions = {}
    /\ attendance = {}
    /\ grades = {}
    /\ NoRequests

\* the CSV rows of the racing imports: ann, who exists, with and without a
\* Student ID, and bob, who does not, with one
RaceRows == WellFormedRows \ {[name |-> "bob", ext |-> "", email |-> ""]}

NextRace ==
    RosterStep(Workers, {1}, Names, CourseIds, RaceRows, MaxRaceRequests)

SpecRace == InitRace /\ [][NextRace]_vars

MaxSessionRequests == 3
MaxSessions == 3
MaxAttendanceRequests == 2
MaxMarkRequests == 2

\* create_session by two workers at once, on a store without sessions
NextSessions ==
    \/ \E w \in Workers, u \in TeacherIds, c \in CourseIds \cup {0}, d \in DateStrs :
          nreq < MaxSessionRequests /\ CreateSession(w, u, c, d)
    \/ \E w \in Workers : CreateSessionCommit(w)

SpecSessions == Init /\ [][NextSessions]_vars

\* the attendance operations of workers ws for callers us, sessions sids and
\* form statuses sts, while fewer than max requests were started
AttendanceStep(ws, us, sids, sts, max) ==
    \/ \E w \in ws, u \in us, sid \in sids :
          nreq < max /\ MarkAttendance(w, u, sid)
    \/ \E w \in ws, status \in sts : MarkStudent(w, status)
    \/ \E w \in ws : MarkCommit(w)
    \/ \E w \in ws, u \in us, c \in CourseIds :
          nreq < max /\ AttendanceReport(w, u, c)
    \/ \E w \in ws, u \in us, sid \in us :
          nreq < max /\ StudentDashboard(w, u, sid)

\* ann and bob, who both log in, are enrolled in course 1 and ann in course 2
\* too; course 1 has had k sessions and ann was marked Present in the first
InitAttendance ==
    /\ users = {[id |-> 1, name |-> "Demo Teacher", role |-> "teacher",
                 password_hash |-> NULL],
                [id |-> 2, name |-> "ann", role |-> "student",
                 password_hash |-> NULL],
                [id |-> 3, name |-> "bob", role |-> "student",
                 password_hash |-> NULL]}
    /\ courses = {[id |-> 1, teacher_id |-> 1], [id |-> 2, teacher_id |-> 1]}
    /\ students = {[id |-> 1, full_name |-> "ann", student_id |-> NULL],
                   [id |-> 2, full_name |-> "bob", student_id |-> NULL]}
    /\ enrollments = {[id |-> 1, course_id |-> 1, student_id |-> 1],
                      [id |-> 2, course_id |-> 1, student_id |-> 2],
                      [id |-> 3, course_id |-> 2, student_id |-> 1]}
    /\ \E k \in 0..MaxSessions :
          /\ sessions = {[id |-> d, course_id |-> 1, session_date |-> d] : d \in 1..k}
          /\ attendance = IF k = 0 THEN {}
                          ELSE {[id |-> 1, session_id |-> 1, student_id |-> 1,
                                 status |-> "Present"]}
    /\ grades = {}
    /\ NoRequests

\* one worker, one request at a time
NextAttendance ==
    AttendanceStep({"w1"}, {1, 2, 3}, 0..MaxSessions, Statuses \cup {""},
                   MaxAttendanceRequests)

SpecAttendance == InitAttendance /\ [][NextAttendance]_vars

\* course 1 has had one session, in which ann was marked Present or nobody
\* was marked
InitMark ==
    /\ users = {[id |-> 1, name |-> "Demo Teacher", role |-> "teacher",
                 password_hash |-> NULL],
                [id |-> 2, name |-> "ann", role |-> "student",
                 password_hash |-> NULL]}
    /\ courses = {[id |-> 1, teacher_id |-> 1], [id |-> 2, teacher_id |-> 1]}
    /\ students = {[id |-> 1, full_name |-> "ann", student_id |-> NULL],
                   [id |-> 2, full_name |-> "bob", student_id |-> NULL]}
    /\ enrollments = {[id |-> 1, course_id |-> 1, student_id |-> 1],
                      [id |-> 2, course_id |-> 1, student_id |-> 2]}
    /\ sessions = {[id |-> 1, course_id |-> 1, session_date |-> 1]}
    /\ attendance \in {{}, {[id |-> 1, session_id |-> 1, student_id |-> 1,
                             status |-> "Present"]}}
    /\ grades = {}
    /\ NoRequests

\* the attendance operations by two workers at once
NextMark ==
    AttendanceStep(Workers, {1, 2}, {1}, {"Present", "Late", ""}, MaxMarkRequests)

SpecMark == InitMark /\ [][NextMark]_vars

MaxConflictRequests == 2

\* ann is enrolled in course 1, which has had one session
InitConflict ==
    /\ users = {[id |-> 1, name |-> "Demo Teacher", role |-> "teacher",
                 password_hash |-> NULL]}
    /\ courses = {[id |-> 1, teacher_id |-> 1], [id |-> 2, teacher_id |-> 1]}
    /\ students = {[id |-> 1, full_name |-> "ann", student_id |-> NULL]}
    /\ enrollments = {[id |-> 1, course_id |-> 1, student_id |-> 1]}
    /\ sessions = {[id |-> 1, course_id |-> 1, session_date |-> 1]}
    /\ attendance = {}
    /\ grades = {}
    /\ NoRequests

\* the writing operations by two workers at once
NextConflict ==
    \/ RosterStep(Workers, {1}, Names, CourseIds, [name : Names, ext : {""}, email : {""}],
                  MaxConflictRequests)
    \/ \E w \in Workers, d \in {"2024-1-1", "2024-01-02"} :
          nreq < MaxConflictRequests /\ CreateSession(w, 1, 1, d)
    \/ \E w \in Workers : CreateSessionCommit(w)
    \/ \E w \in Workers, sid \in {1} :
          nreq < MaxConflictRequests /\ MarkAttendance(w, 1, sid)
    \/ \E w \in Workers, status \in {"Present", ""} : MarkStudent(w, status)
    \/ \E w \in Workers : MarkCommit(w)

SpecConflict == InitConflict /\ [][NextConflict]_vars

MaxAppRequests == 2

\* every operation of the application, for workers ws and callers us, while
\* fewer than max requests were started
AppStep(ws, us, max) ==
    \/ RosterStep(ws, us, AppNames \cup {""}, CourseIds \cup {0}, AppRows, max)
    \/ \E w \in ws, u \in us, c \in CourseIds \cup {0}, d \in DateStrs :
          nreq < max /\ CreateSession(w, u, c, d)
    \/ \E w \in ws : CreateSessionCommit(w)
    \/ AttendanceStep(ws, us, {0, 1, 2}, {"Present", "Late", "Holiday", ""}, max)
    \/ \E w \in ws, name \in {"", "ann", "Demo Teacher"}, password \in Passwords,
          role \in {"teacher", "student"} :
          nreq < max /\ Login(w, name, password, role)
    \/ \E w \in ws, u \in us, name \in {"", "Algebra"} :
          nreq < max /\ CreateCourse(w, u, name)
    \/ \E w \in ws, u \in us, c \in CourseIds :
          nreq < max /\ ExportStudents(w, u, c)
    \/ \E w \in ws, u \in us, c \in CourseIds :
          nreq < max /\ ExportAttendance(w, u, c)
    \/ \E w \in ws, u \in us, c \in CourseIds, f \in GradeForms :
          nreq < max /\ ManageGrades(w, u, c, f.student_id, f.assignment_name,
                                     f.grade_value, f.due_date)
    \/ \E w \in ws, u \in us, g \in {1, 2, 9} :
          nreq < max /\ DeleteGrade(w, u, g)

\* two teachers with a course each; ann is enrolled in course 1 and bob, who
\* has Student ID X1, in both courses; each course has had a session; ann
\* has a grade in course 1
InitApp ==
    /\ users = {[id |-> 1, name |-> "Demo Teacher", role |-> "teacher",
                 password_hash |-> NULL],
                [id |-> 2, name |-> "Ms B", role |-> "teacher",
                 password_hash |-> Hash("pw")],
                [id |-> 3, name |-> "ann", role |-> "student",
                 password_hash |-> NULL]}
    /\ courses = {[id |-> 1, teacher_id |-> 1], [id |-> 2, teacher_id |-> 2]}
    /\ students = {[id |-> 1, full_name |-> "ann", student_id |-> NULL],
                   [id |-> 2, full_name |-> "bob", student_id |-> "X1"]}
    /\ enrollments = {[id |-> 1, course_id |-> 1, student_id |-> 1],
                      [id |-> 2, course_id |-> 2, student_id |-> 2],
                      [id |-> 3, course_id |-> 1, student_id |-> 2]}
    /\ sessions = {[id |-> 1, course_id |-> 1, session_date |-> 1],
                   [id |-> 2, course_id |-> 2, session_date |-> 1]}
    /\ attendance = {}
    /\ grades = {[id |-> 1, course_id |-> 1, student_id |-> 1,
                  assignment_name |-> "quiz", grade_value |-> 85, due_date |-> 0]}
    /\ NoRequests

\* one worker, one request at a time, any of the three users calling
NextApp == AppStep({"w1"}, {1, 2, 3}, MaxAppRequests)

SpecApp == InitApp /\ [][NextApp]_vars

LongCourseSessions == 251

\* the Attendance rows of student st in a course whose sessions are numbered
\* from 1: Present in the first `present' sessions, Late in the next `late'
\* and Excused in the `excused' after those
MarkedRows(st, present, late, excused) ==
    {[id |-> (st - 1) * LongCourseSessions + d, session_id |-> d, student_id |-> st,
      status |-> IF d <= present THEN "Present"
                 ELSE IF d <= present + late THEN "Late" ELSE "Excused"] :
        d \in 1..(present + late + excused)}

\* course 1 has had LongCourseSessions sessions; ann and bob, enrolled in
\* this order, were each present in about an eighth of them, late in one or
\* none, excused in one, and have no row for the others
InitLongCourse ==
    /\ users = {[id |-> 1, name |-> "Demo Teacher", role |-> "teacher",
                 password_hash |-> NULL],
                [id |-> 2, name |-> "ann", role |-> "student",
                 password_hash |-> NULL]}
    /\ courses = {[id |-> 1, teacher_id |-> 1], [id |-> 2, teacher_id |-> 1]}
    /\ students = {[id |-> 1, full_name |-> "ann", student_id |-> NULL],
                   [id |-> 2, full_name |-> "bob", student_id |-> NULL]}
    /\ enrollments = {[id |-> 1, course_id |-> 1, student_id |-> 1],
                      [id |-> 2, course_id |-> 1, student_id |-> 2]}
    /\ sessions = {[id |-> d, course_id |-> 1, session_date |-> d] :
                      d \in 1..LongCourseSessions}
    /\ \E p1, p2 \in {LongCourseSessions \div 8 - 1, LongCourseSessions \div 8},
          l1, l2 \in {0, 1} :
          attendance = MarkedRows(1, p1, l1, 1) \cup MarkedRows(2, p2, l2, 1)
    /\ grades = {}
    /\ NoRequests

\* the teacher and the student ask for the reports of the two courses
NextLongCourse ==
    \E w \in Workers, u \in {1, 2}, c \in CourseIds :
        nreq < MaxAttendanceRequests /\ AttendanceReport(w, u, c)

SpecLongCourse == InitLongCourse /\ [][NextLongCourse]_vars

MaxBootRequests == 3

\* an empty database; the server is to be started by start.py, or gunicorn
\* was started directly and its workers wait for their first requests
InitBoot ==
    /\ users = {} /\ courses = {} /\ students = {} /\ enrollments = {}
    /\ sessions = {} /\ attendance = {} /\ grades = {}
    /\ pc = [w \in Workers |-> "idle"]
    /\ req = [w \in Workers |-> [op |-> "none"]]
    /\ tx = [w \in Workers |-> EmptyTx]
    /\ last = NoResponse
    /\ nreq = 0
    /\ db_initialized = {}
    /\ main \in {"start", "not used"}

\* start.py, and requests to log in as a student or to create a course that
\* reach the two workers, each after its before_request hook
NextBoot ==
    \/ \E up \in BOOLEAN : StartMain(up)
    \/ \E found \in BOOLEAN : ExecGunicorn(found)
    \/ \E w \in Workers, up \in BOOLEAN :
          nreq < MaxBootRequests /\ EnsureDbInitialized(w, up)
    \/ \E w \in Workers : InitDbCommit(w)
    \/ \E w \in Workers, password \in Passwords :
          Dispatched(w) /\ Login(w, "ann", password, "student")
    \/ \E w \in Workers, u \in {1, 2} :
          Dispatched(w) /\ CreateCourse(w, u, "Algebra")

SpecBoot == InitBoot /\ [][NextBoot]_vars

====
